---- MODULE Spec2Model ----
(***************************************************************************)
(* discord-exporter: the metrics collector, in the three revisions of the  *)
(* program that the repository holds.                                      *)
(*                                                                         *)
(*   Spec       the concurrent collector: worker pool, semaphore, results  *)
(*              channel and WaitGroup, cycle after cycle                   *)
(*   SpecCount  the same code on a guild of one channel, for every length  *)
(*              of the channel's history                                   *)
(*   SpecE2E    the same code, one cycle over three channels of 230, 0     *)
(*              and 400 messages with two permits                          *)
(*   SpecSeq    the sequential collector with a configured exclusion set   *)
(*   SpecOld    the first collector (main.go)                              *)
(*                                                                         *)
(* The upstream is a guild whose channels each hold a history of messages  *)
(* numbered from the oldest; a page request returns the newest messages    *)
(* older than its cursor, at most the requested number, or fails.          *)
(* Strings are sequences of one-character strings, so that Split and       *)
(* TrimSpace are computed as the library computes them.                    *)
(***************************************************************************)
EXTENDS Integers, Sequences, FiniteSets, TLC

VARIABLES
    alive,          \* the process has not exited (log.Fatalf ends it)
    excluded,       \* config.ExcludedChannels: a set of names
    limit,          \* cap(semaphore)
    messages,       \* upstream: channel ID -> number of messages in its history
    pc,             \* position of the collector goroutine in its loop
    memberErr,      \* err of updateMemberCount, until updateMessageCount is entered
    channelsErr,    \* err of this cycle's GuildChannels call
    memberCountGauge,
    messageCountGauge,  \* label -> value, for the labels created so far
    guildChannels,  \* the list GuildChannels returned in this cycle
    activeChannels, \* the filtered list
    counted,        \* IDs of the channels whose count was started in this cycle
    wpc,            \* per worker: position in the goroutine
    lastMessageID,  \* per worker: the cursor of countChannelMessages
    totalCount,     \* per worker: the running total of countChannelMessages
    werr,           \* per worker: err of the last ChannelMessages call
    pages,          \* per worker: the lengths of the pages returned so far
    semaphore,      \* number of elements in the semaphore channel
    results,        \* the buffered results channel
    closed,         \* close(results) was called
    wg,             \* the WaitGroup counter
    closer,         \* position of the goroutine that closes results
    successCount,
    errorCount

vars == <<alive, excluded, limit, messages, pc, memberErr, channelsErr, memberCountGauge,
          messageCountGauge, guildChannels, activeChannels, counted, wpc,
          lastMessageID, totalCount, werr, pages, semaphore, results, closed,
          wg, closer, successCount, errorCount>>

----------------------------------------------------------------------------
(* Program constants *)

maxMembersPerRequest == 1000
maxMessagesPerRequest == 100
maxConcurrentChannels == 5

(* Bounds of the model *)

\* most full pages of a channel counted on its own
MaxFullPages == 2

\* longest channel list GuildChannels returns
MaxChannels == 2

----------------------------------------------------------------------------
(* Strings *)

Range(s) == {s[i] : i \in 1..Len(s)}

Min(a, b) == IF a < b THEN a ELSE b

RECURSIVE SplitFrom(_, _, _)
SplitFrom(s, cur, acc) ==
    IF s = <<>> THEN Append(acc, cur)
    ELSE IF Head(s) = "," THEN SplitFrom(Tail(s), <<>>, Append(acc, cur))
    ELSE SplitFrom(Tail(s), Append(cur, Head(s)), acc)

\* strings.Split(s, ","): the pieces between the commas, empty ones included
Split(s) == SplitFrom(s, <<>>, <<>>)

RECURSIVE TrimLeft(_)
TrimLeft(s) == IF s # <<>> /\ Head(s) = " " THEN TrimLeft(Tail(s)) ELSE s

RECURSIVE TrimRight(_)
TrimRight(s) ==
    IF s # <<>> /\ s[Len(s)] = " " THEN TrimRight(SubSeq(s, 1, Len(s) - 1)) ELSE s

\* strings.TrimSpace
TrimSpace(s) == TrimRight(TrimLeft(s))

parseExcludedChannels(channelsStr) ==
    IF channelsStr = <<>> THEN {}
    ELSE {TrimSpace(name) : name \in Range(Split(channelsStr))} \ {<<>>}

----------------------------------------------------------------------------
(* The upstream: the guild's channels and their message histories *)

ChannelTypeGuildText == "text"
ChannelTypeGuildVoice == "voice"

\* Two text channels share a display name: names are not unique in a guild.
Guild ==
    { [ID |-> 1, Name |-> <<"g">>, Type |-> ChannelTypeGuildText],
      [ID |-> 2, Name |-> <<"a">>, Type |-> ChannelTypeGuildText],
      [ID |-> 3, Name |-> <<"v">>, Type |-> ChannelTypeGuildVoice],
      [ID |-> 4, Name |-> <<"g">>, Type |-> ChannelTypeGuildText] }

\* The values of excludeChannels in the configuration file
ExcludeStrings == { <<>>, <<" ", "a", ",", ",", " ">> }

\* The capacities the semaphore is built with
Limits == {1, maxConcurrentChannels}

\* The numbers of members the guild may have
GuildSizes == {3}

\* Messages in the history of each channel of Guild. The identifiers of the
\* messages of channel id are 1..messages[id], the newest has the largest.
History == [id \in {c.ID : c \in Guild} |->
              CASE id = 1 -> 130 [] id = 2 -> 30 [] OTHER -> 0]

NoMessageID == 0

\* session.ChannelMessages(id, max, beforeID, "", ""): the number of messages
\* of the page, the newest first, all older than beforeID
PageLen(id, max, beforeID) ==
    LET newest == IF beforeID = NoMessageID THEN messages[id] ELSE beforeID - 1
    IN  Min(max, newest)

PageFirstID(id, max, beforeID) ==
    IF beforeID = NoMessageID THEN messages[id] ELSE beforeID - 1

\* the ID of the last (oldest) message of that page
PageLastID(id, max, beforeID) ==
    LET newest == IF beforeID = NoMessageID THEN messages[id] ELSE beforeID - 1
    IN  newest - PageLen(id, max, beforeID) + 1

\* The lists GuildChannels may return: distinct channels, in any order
ChannelLists ==
    UNION { { s \in [1..n -> Guild] : \A i, j \in 1..n : i # j => s[i] # s[j] }
            : n \in 0..MaxChannels }

----------------------------------------------------------------------------
(* State after main has started the collector *)

NoLabels == [label \in {} |-> 0]

Workers == DOMAIN wpc

NoWorkers ==
    /\ activeChannels = <<>>
    /\ counted = {}
    /\ wpc = <<>>
    /\ lastMessageID = <<>>
    /\ totalCount = <<>>
    /\ werr = <<>>
    /\ pages = <<>>
    /\ semaphore = 0
    /\ results = <<>>
    /\ closed = FALSE
    /\ wg = 0
    /\ closer = "none"
    /\ successCount = 0
    /\ errorCount = 0

Init ==
    /\ alive = TRUE
    /\ \E s \in ExcludeStrings : excluded = parseExcludedChannels(s)
    /\ limit \in Limits
    /\ messages = History
    /\ pc = "updateMemberCount"
    /\ memberErr = FALSE
    /\ channelsErr = FALSE
    /\ memberCountGauge = 0
    /\ messageCountGauge = NoLabels
    /\ guildChannels = <<>>
    /\ NoWorkers

----------------------------------------------------------------------------------------------------------------------------------------
(* updateMemberCount *)

config == <<alive, excluded, limit, messages>>
phase == <<memberErr, channelsErr>>
cycleVars == <<guildChannels, activeChannels, counted>>
countVars == <<lastMessageID, totalCount, werr, pages>>
poolVars == <<semaphore, results, closed, wg, closer>>
tally == <<successCount, errorCount>>

\* session.GuildMembers(serverID, "", max): at most max members
GuildMembers(size, max) == Min(size, max)

updateMemberCountOk ==
    /\ alive /\ pc = "updateMemberCount"
    /\ \E size \in GuildSizes :
         memberCountGauge' = GuildMembers(size, maxMembersPerRequest)
    /\ memberErr' = FALSE
    /\ pc' = "updateMessageCount"
    /\ UNCHANGED <<config, channelsErr, messageCountGauge, cycleVars, wpc,
                   countVars, poolVars, tally>>

updateMemberCountErrZero ==
    /\ alive /\ pc = "updateMemberCount"
    /\ memberErr' = TRUE
    /\ memberCountGauge' = 0
    /\ pc' = "updateMessageCount"
    /\ UNCHANGED <<config, channelsErr, messageCountGauge, cycleVars, wpc,
                   countVars, poolVars, tally>>

\* log.Printf and return: the gauge is not written
updateMemberCountErr ==
    /\ alive /\ pc = "updateMemberCount"
    /\ memberErr' = TRUE
    /\ pc' = "updateMessageCount"
    /\ UNCHANGED <<config, channelsErr, memberCountGauge, messageCountGauge,
                   cycleVars, wpc, countVars, poolVars, tally>>

----------------------------------------------------------------------------
(* updateMessageCount: enumeration and filter *)

IsText(channel) == channel.Type = ChannelTypeGuildText

IsExcludedNever(channel) == FALSE

IsExcluded(channel) == channel.Name \in excluded

RECURSIVE FilterActive(_)
FilterActive(channels) ==
    IF channels = <<>> THEN <<>>
    ELSE IF ~IsText(Head(channels)) THEN FilterActive(Tail(channels))
    ELSE IF IsExcluded(Head(channels)) THEN FilterActive(Tail(channels))
    ELSE <<Head(channels)>> \o FilterActive(Tail(channels))

\* GuildChannels failed: log.Printf and return
GuildChannelsErr ==
    /\ alive /\ pc = "updateMessageCount"
    /\ channelsErr' = TRUE
    /\ memberErr' = FALSE
    /\ pc' = "Sleep"
    /\ UNCHANGED <<config, memberCountGauge, messageCountGauge, cycleVars,
                   wpc, countVars, poolVars, tally>>

\* GuildChannels succeeded: filter, and return when nothing is left, else
\* make the results channel, the semaphore and the WaitGroup
Enumerate(lists) ==
    /\ alive /\ pc = "updateMessageCount"
    /\ \E channels \in lists :
         LET active == FilterActive(channels) IN
         /\ guildChannels' = channels
         /\ activeChannels' = active
         /\ pc' = IF active = <<>> THEN "Sleep" ELSE "dispatch"
         /\ wpc' = [i \in 1..Len(active) |-> "idle"]
         /\ lastMessageID' = [i \in 1..Len(active) |-> NoMessageID]
         /\ totalCount' = [i \in 1..Len(active) |-> 0]
         /\ werr' = [i \in 1..Len(active) |-> FALSE]
         /\ pages' = [i \in 1..Len(active) |-> <<>>]
    /\ channelsErr' = FALSE
    /\ memberErr' = FALSE
    /\ UNCHANGED <<config, memberCountGauge, messageCountGauge, counted,
                   poolVars, tally>>

GuildChannelsOk == Enumerate(ChannelLists)

----------------------------------------------------------------------------
(* updateMessageCount: the worker pool *)

Idle == {i \in Workers : wpc[i] = "idle"}

GoWithoutAdd(i) ==
    /\ alive /\ pc = "dispatch"
    /\ i \in Idle /\ \A j \in Idle : i <= j
    /\ wpc' = [wpc EXCEPT ![i] = "acquire"]
    /\ counted' = counted \cup {activeChannels[i].ID}
    /\ UNCHANGED <<config, pc, phase, memberCountGauge, messageCountGauge,
                   guildChannels, activeChannels, countVars, poolVars, tally>>

\* go func(ch) for the next channel of the loop, after wg.Add(1)
Go(i) ==
    /\ alive /\ pc = "dispatch"
    /\ i \in Idle /\ \A j \in Idle : i <= j
    /\ wg' = wg + 1
    /\ wpc' = [wpc EXCEPT ![i] = "acquire"]
    /\ counted' = counted \cup {activeChannels[i].ID}
    /\ UNCHANGED <<config, pc, phase, memberCountGauge, messageCountGauge,
                   guildChannels, activeChannels, countVars, semaphore,
                   results, closed, closer, tally>>

\* the loop is over: go func() { wg.Wait(); close(results) }()
GoCloser ==
    /\ alive /\ pc = "dispatch"
    /\ Idle = {}
    /\ closer' = "Wait"
    /\ pc' = "collect"
    /\ UNCHANGED <<config, phase, memberCountGauge, messageCountGauge,
                   cycleVars, wpc, countVars, semaphore, results, closed, wg,
                   tally>>

SemaphoreOnePermit == semaphore < 1

SemaphoreOffByOne == semaphore <= limit

\* a send on the semaphore channel blocks while the buffer is full
SemaphoreHasRoom == semaphore < limit

\* semaphore <- struct{}{}
Acquire(i) ==
    /\ alive /\ i \in Workers /\ wpc[i] = "acquire"
    /\ SemaphoreHasRoom
    /\ semaphore' = semaphore + 1
    /\ wpc' = [wpc EXCEPT ![i] = "request"]
    /\ UNCHANGED <<config, pc, phase, memberCountGauge, messageCountGauge,
                   cycleVars, countVars, results, closed, wg, closer, tally>>

\* countChannelMessages: session.ChannelMessages is called with the cursor
Request(i) ==
    /\ alive /\ i \in Workers /\ wpc[i] = "request"
    /\ wpc' = [wpc EXCEPT ![i] = "await"]
    /\ UNCHANGED <<config, pc, phase, memberCountGauge, messageCountGauge,
                   cycleVars, countVars, poolVars, tally>>

IsLastPageWhenEmpty(messageCount) == messageCount = 0

IsLastPageOrFull(messageCount) == messageCount <= maxMessagesPerRequest

\* the loop ends on a page shorter than the maximum
IsLastPage(messageCount) == messageCount < maxMessagesPerRequest

AccumulateLast(total, messageCount) == messageCount

\* totalCount += messageCount
Accumulate(total, messageCount) == total + messageCount

\* countChannelMessages: the call returned a page
PageOk(i) ==
    /\ alive /\ i \in Workers /\ wpc[i] = "await"
    /\ LET id == activeChannels[i].ID
           messageCount == PageLen(id, maxMessagesPerRequest, lastMessageID[i])
       IN  /\ pages' = [pages EXCEPT ![i] = Append(@, messageCount)]
           /\ totalCount' = [totalCount EXCEPT ![i] = Accumulate(@, messageCount)]
           /\ werr' = [werr EXCEPT ![i] = FALSE]
           /\ IF IsLastPage(messageCount)
              THEN /\ wpc' = [wpc EXCEPT ![i] = "send"]
                   /\ UNCHANGED lastMessageID
              ELSE /\ wpc' = [wpc EXCEPT ![i] = "request"]
                   /\ lastMessageID' =
                        [lastMessageID EXCEPT ![i] =
                           PageLastID(id, maxMessagesPerRequest, @)]
    /\ UNCHANGED <<config, pc, phase, memberCountGauge, messageCountGauge,
                   cycleVars, poolVars, tally>>

CountOnErrorPartial(total) == total

\* what countChannelMessages returns as count when a request fails
CountOnError(total) == 0

\* countChannelMessages: the call returned an error: return 0, err
PageErr(i) ==
    /\ alive /\ i \in Workers /\ wpc[i] = "await"
    /\ werr' = [werr EXCEPT ![i] = TRUE]
    /\ totalCount' = [totalCount EXCEPT ![i] = CountOnError(@)]
    /\ wpc' = [wpc EXCEPT ![i] = "send"]
    /\ UNCHANGED <<config, pc, phase, memberCountGauge, messageCountGauge,
                   cycleVars, lastMessageID, pages, poolVars, tally>>

SendAndSet(i) ==
    /\ alive /\ i \in Workers /\ wpc[i] = "send"
    /\ Len(results) < Len(activeChannels)
    /\ ~closed
    /\ results' = Append(results, [channelName |-> activeChannels[i].Name,
                                   count |-> totalCount[i],
                                   err |-> werr[i]])
    /\ messageCountGauge' =
         IF werr[i] THEN messageCountGauge
         ELSE [l \in DOMAIN messageCountGauge \cup {activeChannels[i].Name} |->
                 IF l = activeChannels[i].Name THEN totalCount[i]
                 ELSE messageCountGauge[l]]
    /\ wpc' = [wpc EXCEPT ![i] = "release"]
    /\ lastMessageID' = [lastMessageID EXCEPT ![i] = NoMessageID]
    /\ totalCount' = [totalCount EXCEPT ![i] = 0]
    /\ werr' = [werr EXCEPT ![i] = FALSE]
    /\ pages' = [pages EXCEPT ![i] = <<>>]
    /\ UNCHANGED <<config, pc, phase, memberCountGauge, cycleVars, semaphore,
                   closed, wg, closer, tally>>

SendToBufferOfOne(i) ==
    /\ alive /\ i \in Workers /\ wpc[i] = "send"
    /\ Len(results) < 1
    /\ ~closed
    /\ results' = Append(results, [channelName |-> activeChannels[i].Name,
                                   count |-> totalCount[i],
                                   err |-> werr[i]])
    /\ wpc' = [wpc EXCEPT ![i] = "release"]
    /\ lastMessageID' = [lastMessageID EXCEPT ![i] = NoMessageID]
    /\ totalCount' = [totalCount EXCEPT ![i] = 0]
    /\ werr' = [werr EXCEPT ![i] = FALSE]
    /\ pages' = [pages EXCEPT ![i] = <<>>]
    /\ UNCHANGED <<config, pc, phase, memberCountGauge, messageCountGauge,
                   cycleVars, semaphore, closed, wg, closer, tally>>

\* processChannel: results <- channelCountResult{...}; the send blocks while
\* the buffer, of len(activeChannels), is full
Send(i) ==
    /\ alive /\ i \in Workers /\ wpc[i] = "send"
    /\ Len(results) < Len(activeChannels)
    /\ ~closed
    /\ results' = Append(results, [channelName |-> activeChannels[i].Name,
                                   count |-> totalCount[i],
                                   err |-> werr[i]])
    /\ wpc' = [wpc EXCEPT ![i] = "release"]
    \* countChannelMessages has returned: its locals are gone
    /\ lastMessageID' = [lastMessageID EXCEPT ![i] = NoMessageID]
    /\ totalCount' = [totalCount EXCEPT ![i] = 0]
    /\ werr' = [werr EXCEPT ![i] = FALSE]
    /\ pages' = [pages EXCEPT ![i] = <<>>]
    /\ UNCHANGED <<config, pc, phase, memberCountGauge, messageCountGauge,
                   cycleVars, semaphore, closed, wg, closer, tally>>

ReleaseNothing(i) ==
    /\ alive /\ i \in Workers /\ wpc[i] = "release"
    /\ wpc' = [wpc EXCEPT ![i] = "Done"]
    /\ UNCHANGED <<config, pc, phase, memberCountGauge, messageCountGauge,
                   cycleVars, countVars, poolVars, tally>>

\* the deferred <-semaphore
Release(i) ==
    /\ alive /\ i \in Workers /\ wpc[i] = "release"
    /\ semaphore > 0
    /\ semaphore' = semaphore - 1
    /\ wpc' = [wpc EXCEPT ![i] = "Done"]
    /\ UNCHANGED <<config, pc, phase, memberCountGauge, messageCountGauge,
                   cycleVars, countVars, results, closed, wg, closer, tally>>

\* the deferred wg.Done(), which runs after the release
Done(i) ==
    /\ alive /\ i \in Workers /\ wpc[i] = "Done"
    /\ wg' = wg - 1
    /\ wpc' = [wpc EXCEPT ![i] = "exit"]
    /\ UNCHANGED <<config, pc, phase, memberCountGauge, messageCountGauge,
                   cycleVars, countVars, semaphore, results, closed, closer,
                   tally>>

CloseWithoutWait ==
    /\ alive /\ closer = "Wait"
    /\ closed' = TRUE
    /\ closer' = "exit"
    /\ UNCHANGED <<config, pc, phase, memberCountGauge, messageCountGauge,
                   cycleVars, wpc, countVars, semaphore, results, wg, tally>>

\* wg.Wait() returns when the counter is zero; close(results)
Close ==
    /\ alive /\ closer = "Wait"
    /\ wg = 0
    /\ closed' = TRUE
    /\ closer' = "exit"
    /\ UNCHANGED <<config, pc, phase, memberCountGauge, messageCountGauge,
                   cycleVars, wpc, countVars, semaphore, results, wg, tally>>

----------------------------------------------------------------------------
(* updateMessageCount: the collecting loop *)

\* messageCountGauge.WithLabelValues(label).Set(value)
SetGauge(gauge, label, value) ==
    [l \in DOMAIN gauge \cup {label} |-> IF l = label THEN value ELSE gauge[l]]

\* what the collecting loop does to the gauge with one result
Publish(gauge, result) ==
    IF result.err THEN gauge
    ELSE SetGauge(gauge, result.channelName, result.count)

\* one iteration of for result := range results
Collect ==
    /\ alive /\ pc = "collect"
    /\ results # <<>>
    /\ LET result == Head(results) IN
         /\ messageCountGauge' = Publish(messageCountGauge, result)
         /\ IF result.err
            THEN errorCount' = errorCount + 1 /\ UNCHANGED successCount
            ELSE successCount' = successCount + 1 /\ UNCHANGED errorCount
    /\ results' = Tail(results)
    /\ UNCHANGED <<config, pc, phase, memberCountGauge, cycleVars, wpc,
                   countVars, semaphore, closed, wg, closer>>

RangeEndsWhenEmpty == results = <<>>

\* range ends when the channel is closed and drained
RangeEnds == results = <<>> /\ closed

\* the loop ends, updateMessageCount returns, the collector sleeps
Return ==
    /\ alive /\ pc = "collect"
    /\ RangeEnds
    /\ pc' = "Sleep"
    /\ UNCHANGED <<config, phase, memberCountGauge, messageCountGauge,
                   cycleVars, wpc, countVars, poolVars, tally>>

\* time.Sleep(defaultUpdateInterval) returns: the next iteration of the loop
Sleep ==
    /\ alive /\ pc = "Sleep"
    /\ pc' = "updateMemberCount"
    /\ memberErr' = FALSE
    /\ channelsErr' = FALSE
    /\ guildChannels' = <<>>
    /\ activeChannels' = <<>>
    /\ counted' = {}
    /\ wpc' = <<>>
    /\ lastMessageID' = <<>>
    /\ totalCount' = <<>>
    /\ werr' = <<>>
    /\ pages' = <<>>
    /\ semaphore' = 0
    /\ results' = <<>>
    /\ closed' = FALSE
    /\ wg' = 0
    /\ closer' = "none"
    /\ successCount' = 0
    /\ errorCount' = 0
    /\ UNCHANGED <<config, memberCountGauge, messageCountGauge>>

Next ==
    \/ updateMemberCountOk
    \/ updateMemberCountErr
    \/ GuildChannelsErr
    \/ GuildChannelsOk
    \/ \E i \in Workers : Go(i)
    \/ GoCloser
    \/ \E i \in Workers : Acquire(i)
    \/ \E i \in Workers : Request(i)
    \/ \E i \in Workers : PageOk(i)
    \/ \E i \in Workers : PageErr(i)
    \/ \E i \in Workers : Send(i)
    \/ \E i \in Workers : Release(i)
    \/ \E i \in Workers : Done(i)
    \/ Close
    \/ Collect
    \/ Return
    \/ Sleep

Spec == Init /\ [][Next]_vars

----------------------------------------------------------------------------
(* One channel counted on its own, for every length of its history *)

ChannelGeneral == CHOOSE c \in Guild : c.ID = 1

ShortPages == {0, 1, 30, 99}

HistorySizes ==
    {maxMessagesPerRequest * k + r : k \in 0..MaxFullPages, r \in ShortPages}

InitCount ==
    /\ alive = TRUE
    /\ excluded = {}
    /\ limit = 1
    /\ \E size \in HistorySizes : messages = [id \in {ChannelGeneral.ID} |-> size]
    /\ pc = "updateMessageCount"
    /\ memberErr = FALSE
    /\ channelsErr = FALSE
    /\ memberCountGauge = 0
    /\ messageCountGauge = NoLabels
    /\ guildChannels = <<>>
    /\ NoWorkers

GuildChannelsOne == Enumerate({<<ChannelGeneral>>})

NextCount ==
    \/ GuildChannelsOne
    \/ \E i \in Workers : Go(i)
    \/ GoCloser
    \/ \E i \in Workers : Acquire(i)
    \/ \E i \in Workers : Request(i)
    \/ \E i \in Workers : PageOk(i)
    \/ \E i \in Workers : PageErr(i)
    \/ \E i \in Workers : Send(i)
    \/ \E i \in Workers : Release(i)
    \/ \E i \in Workers : Done(i)
    \/ Close
    \/ Collect
    \/ Return

SpecCount == InitCount /\ [][NextCount]_vars

\* the same, where every goroutine is scheduled and every request returns
SpecCountFair == SpecCount /\ WF_vars(NextCount)

----------------------------------------------------------------------------
(* One cycle over three channels of 230, 0 and 400 messages, two permits *)

GuildE2E ==
    { [ID |-> 1, Name |-> <<"x">>, Type |-> ChannelTypeGuildText],
      [ID |-> 2, Name |-> <<"y">>, Type |-> ChannelTypeGuildText],
      [ID |-> 3, Name |-> <<"z">>, Type |-> ChannelTypeGuildText] }

HistoryE2E == [id \in {c.ID : c \in GuildE2E} |->
                 CASE id = 1 -> 230 [] id = 2 -> 0 [] OTHER -> 400]

\* the three channels, in any order
ChannelListsE2E ==
    { s \in [1..Cardinality(GuildE2E) -> GuildE2E] :
        \A i, j \in DOMAIN s : i # j => s[i] # s[j] }

InitE2E ==
    /\ alive = TRUE
    /\ excluded = {}
    /\ limit = 2
    /\ messages = HistoryE2E
    /\ pc = "updateMemberCount"
    /\ memberErr = FALSE
    /\ channelsErr = FALSE
    /\ memberCountGauge = 0
    /\ messageCountGauge = NoLabels
    /\ guildChannels = <<>>
    /\ NoWorkers

GuildChannelsE2E == Enumerate(ChannelListsE2E)

NextE2E ==
    \/ updateMemberCountOk
    \/ GuildChannelsE2E
    \/ \E i \in Workers : Go(i)
    \/ GoCloser
    \/ \E i \in Workers : Acquire(i)
    \/ \E i \in Workers : Request(i)
    \/ \E i \in Workers : PageOk(i)
    \/ \E i \in Workers : Send(i)
    \/ \E i \in Workers : Release(i)
    \/ \E i \in Workers : Done(i)
    \/ Close
    \/ Collect
    \/ Return

SpecE2E == InitE2E /\ [][NextE2E]_vars

----------------------------------------------------------------------------
(* One cycle over the three channels with two permits, where a request of  *)
(* one channel may never return: the code sets no timeout on               *)
(* session.ChannelMessages. Every other step of every goroutine is taken   *)
(* eventually.                                                             *)

\* the channel whose request may hang
HungChannels == {1}

\* the workers of the other channels
Others == {i \in Workers : activeChannels[i].ID \notin HungChannels}

\* a request of another channel fails
PageErrOther(i) == i \in Others /\ PageErr(i)

NextHang ==
    \/ NextE2E
    \/ \E i \in Workers : PageErrOther(i)

\* the collector goroutine: one step after the other of the loop
Collector ==
    \/ updateMemberCountOk
    \/ GuildChannelsE2E
    \/ \E i \in Workers : Go(i)
    \/ GoCloser
    \/ Collect
    \/ Return

\* the steps of worker i that are its own, and the return of a request that
\* does not hang
WorkerStep(i) ==
    \/ Acquire(i)
    \/ Request(i)
    \/ (i \in Others /\ PageOk(i))
    \/ PageErrOther(i)
    \/ Send(i)
    \/ Release(i)
    \/ Done(i)

FairHang ==
    /\ WF_vars(Collector)
    /\ WF_vars(Close)
    /\ \A i \in 1..Cardinality(GuildE2E) : WF_vars(i \in Workers /\ WorkerStep(i))

SpecHang == InitE2E /\ [][NextHang]_vars /\ FairHang

----------------------------------------------------------------------------
(* One updateMessageCount of the concurrent collector for every channel    *)
(* list and both capacities of the semaphore, where every goroutine is     *)
(* scheduled and every request returns, with a page or with an error.      *)

\* updateMessageCount is entered for the first time
InitFair ==
    /\ alive = TRUE
    /\ \E s \in ExcludeStrings : excluded = parseExcludedChannels(s)
    /\ limit \in Limits
    /\ messages = History
    /\ pc = "updateMessageCount"
    /\ memberErr = FALSE
    /\ channelsErr = FALSE
    /\ memberCountGauge = 0
    /\ messageCountGauge = NoLabels
    /\ guildChannels = <<>>
    /\ NoWorkers

\* the collector goroutine in updateMessageCount, up to its return
CollectorStep ==
    \/ GuildChannelsErr
    \/ GuildChannelsOk
    \/ \E i \in Workers : Go(i)
    \/ GoCloser
    \/ Collect
    \/ Return

\* the goroutine of the i-th channel
WorkerRun(i) ==
    \/ Acquire(i)
    \/ Request(i)
    \/ PageOk(i)
    \/ PageErr(i)
    \/ Send(i)
    \/ Release(i)
    \/ Done(i)

NextCycle ==
    \/ CollectorStep
    \/ \E i \in Workers : WorkerRun(i)
    \/ Close

FairCycle ==
    /\ WF_vars(CollectorStep)
    /\ WF_vars(Close)
    /\ \A i \in 1..MaxChannels : WF_vars(i \in Workers /\ WorkerRun(i))

SpecFair == InitFair /\ [][NextCycle]_vars /\ FairCycle

----------------------------------------------------------------------------
(* The sequential collector: updateMessageCount counts the channels one    *)
(* after the other, in the list's order. updateMemberCount,                *)
(* countChannelMessages and the collector's loop are those of the          *)
(* concurrent revision.                                                    *)

\* the channel whose iteration of the loop is running
Current == {i \in Workers : wpc[i] \notin {"idle", "exit"}}

\* GuildChannels succeeded: the loop ranges over the list as returned
RangeOver(lists) ==
    /\ alive /\ pc = "updateMessageCount"
    /\ \E channels \in lists :
         /\ guildChannels' = channels
         /\ activeChannels' = channels
         /\ wpc' = [i \in 1..Len(channels) |-> "idle"]
         /\ lastMessageID' = [i \in 1..Len(channels) |-> NoMessageID]
         /\ totalCount' = [i \in 1..Len(channels) |-> 0]
         /\ werr' = [i \in 1..Len(channels) |-> FALSE]
         /\ pages' = [i \in 1..Len(channels) |-> <<>>]
    /\ pc' = "range"
    /\ channelsErr' = FALSE
    /\ memberErr' = FALSE
    /\ UNCHANGED <<config, memberCountGauge, messageCountGauge, counted,
                   poolVars, tally>>

GuildChannelsOkSeq == RangeOver(ChannelLists)

\* the next channel of the loop is excluded: continue
SkipSeq(i) ==
    /\ alive /\ pc = "range" /\ Current = {}
    /\ i \in Idle /\ \A j \in Idle : i <= j
    /\ IsExcluded(activeChannels[i])
    /\ wpc' = [wpc EXCEPT ![i] = "exit"]
    /\ UNCHANGED <<config, pc, phase, memberCountGauge, messageCountGauge,
                   cycleVars, countVars, poolVars, tally>>

\* the next channel of the loop is not excluded: its count starts
CountSeq(i) ==
    /\ alive /\ pc = "range" /\ Current = {}
    /\ i \in Idle /\ \A j \in Idle : i <= j
    /\ ~IsExcluded(activeChannels[i])
    /\ wpc' = [wpc EXCEPT ![i] = "request"]
    /\ counted' = counted \cup {activeChannels[i].ID}
    /\ UNCHANGED <<config, pc, phase, memberCountGauge, messageCountGauge,
                   guildChannels, activeChannels, countVars, poolVars, tally>>

\* countChannelMessages has returned: log the error and continue, or set
\* the gauge
PublishSeq(i) ==
    /\ alive /\ pc = "range" /\ i \in Workers /\ wpc[i] = "send"
    /\ messageCountGauge' =
         IF werr[i] THEN messageCountGauge
         ELSE SetGauge(messageCountGauge, activeChannels[i].Name, totalCount[i])
    /\ wpc' = [wpc EXCEPT ![i] = "exit"]
    /\ lastMessageID' = [lastMessageID EXCEPT ![i] = NoMessageID]
    /\ totalCount' = [totalCount EXCEPT ![i] = 0]
    /\ werr' = [werr EXCEPT ![i] = FALSE]
    /\ pages' = [pages EXCEPT ![i] = <<>>]
    /\ UNCHANGED <<config, pc, phase, memberCountGauge, cycleVars, poolVars,
                   tally>>

\* the loop is over: updateMessageCount returns, the collector sleeps
ReturnSeq ==
    /\ alive /\ pc = "range"
    /\ \A i \in Workers : wpc[i] = "exit"
    /\ pc' = "Sleep"
    /\ UNCHANGED <<config, phase, memberCountGauge, messageCountGauge,
                   cycleVars, wpc, countVars, poolVars, tally>>

InitSeq ==
    /\ alive = TRUE
    /\ \E s \in ExcludeStrings : excluded = parseExcludedChannels(s)
    /\ limit = 0
    /\ messages = History
    /\ pc = "updateMemberCount"
    /\ memberErr = FALSE
    /\ channelsErr = FALSE
    /\ memberCountGauge = 0
    /\ messageCountGauge = NoLabels
    /\ guildChannels = <<>>
    /\ NoWorkers

NextSeq ==
    \/ updateMemberCountOk
    \/ updateMemberCountErr
    \/ GuildChannelsErr
    \/ GuildChannelsOkSeq
    \/ \E i \in Workers : SkipSeq(i)
    \/ \E i \in Workers : CountSeq(i)
    \/ \E i \in Workers : Request(i)
    \/ \E i \in Workers : PageOk(i)
    \/ \E i \in Workers : PageErr(i)
    \/ \E i \in Workers : PublishSeq(i)
    \/ ReturnSeq
    \/ Sleep

SpecSeq == InitSeq /\ [][NextSeq]_vars

----------------------------------------------------------------------------
(* The first collector (main.go): the exclusion set is written in the      *)
(* code, the pagination is inline in updateMessageCount, and the failures  *)
(* of GuildMembers and GuildChannels are logged with log.Fatalf.           *)

\* the two names of the map excludedChannels
ExcludedChannelsOld == { <<"p">>, <<"n">> }

GuildOld ==
    { [ID |-> 1, Name |-> <<"g">>, Type |-> ChannelTypeGuildText],
      [ID |-> 2, Name |-> <<"p">>, Type |-> ChannelTypeGuildText],
      [ID |-> 3, Name |-> <<"v">>, Type |-> ChannelTypeGuildVoice] }

ChannelListsOld ==
    UNION { { s \in [1..n -> GuildOld] : \A i, j \in 1..n : i # j => s[i] # s[j] }
            : n \in 0..MaxChannels }

\* log.Fatalf ends the process
updateMemberCountErrOld ==
    /\ alive /\ pc = "updateMemberCount"
    /\ memberErr' = TRUE
    /\ alive' = FALSE
    /\ UNCHANGED <<excluded, limit, messages, pc, channelsErr,
                   memberCountGauge, messageCountGauge, cycleVars, wpc,
                   countVars, poolVars, tally>>

\* log.Fatalf ends the process
GuildChannelsErrOld ==
    /\ alive /\ pc = "updateMessageCount"
    /\ channelsErr' = TRUE
    /\ alive' = FALSE
    /\ UNCHANGED <<excluded, limit, messages, pc, memberErr,
                   memberCountGauge, messageCountGauge, cycleVars, wpc,
                   countVars, poolVars, tally>>

GuildChannelsOkOld == RangeOver(ChannelListsOld)

\* ChannelMessages failed: log.Printf and break, with the total so far
PageErrOld(i) ==
    /\ alive /\ pc = "range" /\ i \in Workers /\ wpc[i] = "await"
    /\ werr' = [werr EXCEPT ![i] = TRUE]
    /\ wpc' = [wpc EXCEPT ![i] = "send"]
    /\ UNCHANGED <<config, pc, phase, memberCountGauge, messageCountGauge,
                   cycleVars, lastMessageID, totalCount, pages, poolVars,
                   tally>>

\* after the pagination loop, however it ended: the gauge is set
PublishOld(i) ==
    /\ alive /\ pc = "range" /\ i \in Workers /\ wpc[i] = "send"
    /\ messageCountGauge' =
         SetGauge(messageCountGauge, activeChannels[i].Name, totalCount[i])
    /\ wpc' = [wpc EXCEPT ![i] = "exit"]
    /\ lastMessageID' = [lastMessageID EXCEPT ![i] = NoMessageID]
    /\ totalCount' = [totalCount EXCEPT ![i] = 0]
    /\ werr' = [werr EXCEPT ![i] = FALSE]
    /\ pages' = [pages EXCEPT ![i] = <<>>]
    /\ UNCHANGED <<config, pc, phase, memberCountGauge, cycleVars, poolVars,
                   tally>>

InitOld ==
    /\ alive = TRUE
    /\ excluded = ExcludedChannelsOld
    /\ limit = 0
    /\ messages = History
    /\ pc = "updateMemberCount"
    /\ memberErr = FALSE
    /\ channelsErr = FALSE
    /\ memberCountGauge = 0
    /\ messageCountGauge = NoLabels
    /\ guildChannels = <<>>
    /\ NoWorkers

NextOld ==
    \/ updateMemberCountOk
    \/ updateMemberCountErrOld
    \/ GuildChannelsErrOld
    \/ GuildChannelsOkOld
    \/ \E i \in Workers : SkipSeq(i)
    \/ \E i \in Workers : CountSeq(i)
    \/ \E i \in Workers : Request(i)
    \/ \E i \in Workers : PageOk(i)
    \/ \E i \in Workers : PageErrOld(i)
    \/ \E i \in Workers : PublishOld(i)
    \/ ReturnSeq
    \/ Sleep

SpecOld == InitOld /\ [][NextOld]_vars

----------------------------------------------------------------------------
(* Properties of the concurrent collector *)

\* the workers between acquiring and releasing a permit
Holding == {i \in Workers : wpc[i] \in {"request", "await", "send", "release"}}

\* the workers whose send on results has completed
Sent == {i \in Workers : wpc[i] \in {"release", "Done", "exit"}}

\* C1: in every reachable state at most limit workers are between acquiring
\* and releasing a permit, whatever the number of channels.
C1_AtMostKActive == Cardinality(Holding) <= limit

\* the gate is full and a further worker waits for a permit
C1_Witness ==
    /\ Cardinality(Holding) = limit
    /\ \E i \in Workers : wpc[i] = "acquire"

\* C2: every worker sends one result, every result sent is either still in
\* the buffer or was collected once, and when the cycle ends the two counters
\* add up to the number of eligible channels, all workers having ended.
C2_OneResultPerChannel ==
    /\ Len(results) + successCount + errorCount = Cardinality(Sent)
    /\ pc = "Sleep" =>
         /\ successCount + errorCount = Len(activeChannels)
         /\ results = <<>>
         /\ \A i \in Workers : wpc[i] = "exit"

\* a cycle of two channels ended with one success and one failure
C2_Witness ==
    /\ pc = "Sleep"
    /\ Len(activeChannels) = 2
    /\ successCount = 1
    /\ errorCount = 1

\* the pages the upstream serves to cursor-chained requests on a history of
\* size messages: full pages, then the rest
UpstreamPages(size) ==
    LET full == size \div maxMessagesPerRequest
    IN  [j \in 1..(full + 1) |->
           IF j <= full THEN maxMessagesPerRequest
           ELSE size % maxMessagesPerRequest]

\* every page but the last has 100 entries, the last has fewer
FullThenShort(ps) ==
    /\ ps # <<>>
    /\ \A j \in 1..(Len(ps) - 1) : ps[j] = 100
    /\ ps[Len(ps)] < 100

\* C3: when countChannelMessages returns without error, the pages it was
\* given are all the pages of the channel, full ones and then one of r < 100
\* entries, and the count is 100 * (number of full pages) + r.
C3_CountOfFullPagesPlusRest ==
    \A i \in Workers :
        (wpc[i] = "send" /\ ~werr[i]) =>
            /\ pages[i] = UpstreamPages(messages[activeChannels[i].ID])
            /\ FullThenShort(pages[i])
            /\ totalCount[i] = 100 * (Len(pages[i]) - 1) + pages[i][Len(pages[i])]

\* a count of two full pages and a last page of 30 has returned
C3_Witness ==
    \E i \in Workers :
        /\ wpc[i] = "send" /\ ~werr[i]
        /\ pages[i] = <<100, 100, 30>>

\* C4: a failed page request ends the count at once with count 0 and the
\* error, whatever was accumulated; a result with an error holds count 0, and
\* a value published for a label is the full size of a channel of that name.
C4_ErrorEndsCountWithNoTotal ==
    /\ \A i \in Workers : werr[i] => (wpc[i] = "send" /\ totalCount[i] = 0)
    /\ \A j \in DOMAIN results : results[j].err => results[j].count = 0
    /\ \A label \in DOMAIN messageCountGauge :
         \E j \in DOMAIN activeChannels :
            /\ activeChannels[j].Name = label
            /\ messageCountGauge[label] = messages[activeChannels[j].ID]

\* the third request failed after two full pages
C4_Witness ==
    \E i \in Workers : werr[i] /\ pages[i] = <<100, 100>>

\* a count for a channel named label has ended without error and is being
\* published: the collecting loop holds its result, or the sequential loop
\* has it returned
SuccessfulCount(label) ==
    \/ /\ pc = "collect" /\ results # <<>>
       /\ ~Head(results).err /\ Head(results).channelName = label
    \/ /\ pc = "range"
       /\ \E i \in Workers :
            wpc[i] = "send" /\ ~werr[i] /\ activeChannels[i].Name = label

\* C5: a label of the message-count gauge is created or changed only by the
\* publication of a count that ended without error for a channel of that
\* name, and no label is ever removed.
C5_GaugeChangesOnlyOnSuccess ==
    [][ /\ DOMAIN messageCountGauge \subseteq DOMAIN messageCountGauge'
        /\ \A label \in DOMAIN messageCountGauge' :
             (\/ label \notin DOMAIN messageCountGauge
              \/ messageCountGauge'[label] # messageCountGauge[label])
             => SuccessfulCount(label) ]_vars

\* the channels of this cycle's list that are text channels with a name
\* outside the exclusion set
Eligible ==
    {guildChannels[i].ID : i \in
        {j \in DOMAIN guildChannels :
            /\ guildChannels[j].Type = ChannelTypeGuildText
            /\ guildChannels[j].Name \notin excluded}}

\* C6: the channels given to the counter are the text channels of the list
\* whose name is not excluded: none else at any time, and all of them once
\* the list has been gone through.
C6_CountedAreTextAndNotExcluded ==
    /\ counted \subseteq Eligible
    /\ (pc \in {"collect", "Sleep"} /\ ~channelsErr) => counted = Eligible

\* C7: with histories of 230, 0 and 400 messages and two permits, a cycle
\* ends with the three gauges at 230, 0 and 400, in every interleaving.
C7_EndToEnd ==
    pc = "Sleep" =>
        /\ DOMAIN messageCountGauge = {<<"x">>, <<"y">>, <<"z">>}
        /\ messageCountGauge[<<"x">>] = 230
        /\ messageCountGauge[<<"y">>] = 0
        /\ messageCountGauge[<<"z">>] = 400

\* the cycle has ended with three results collected
C7_Witness == pc = "Sleep" /\ successCount = 3 /\ limit = 2

\* C8: no name of the exclusion set is a label of the message-count gauge,
\* and no channel of such a name is counted.
C8_ExcludedNeverPublished ==
    /\ \A label \in DOMAIN messageCountGauge : label \notin excluded
    /\ \A i \in DOMAIN guildChannels :
         guildChannels[i].ID \in counted => guildChannels[i].Name \notin excluded

\* a cycle whose channel list held an excluded text channel ended with a
\* publication
C8_Witness ==
    /\ pc = "Sleep"
    /\ \E i \in DOMAIN guildChannels :
         IsText(guildChannels[i]) /\ guildChannels[i].Name \in excluded
    /\ successCount >= 1

\* C9: the process is running after any failed request of a cycle.
C9_NoErrorIsFatal ==
    (memberErr \/ channelsErr \/ \E i \in Workers : werr[i]) => alive

\* C10: a failed enumeration ends the message-count phase with no worker, no
\* permit and no gauge written, the membership gauge included; a failed
\* membership fetch leaves the membership gauge as it was and is followed by
\* the message-count phase.
C10_PhasesFailIndependently ==
    [][ /\ (pc = "updateMessageCount" /\ channelsErr') =>
             /\ pc' = "Sleep"
             /\ wpc' = <<>> /\ counted' = {} /\ semaphore' = 0
             /\ messageCountGauge' = messageCountGauge
             /\ memberCountGauge' = memberCountGauge
        /\ (pc = "updateMemberCount" /\ memberErr') =>
             /\ memberCountGauge' = memberCountGauge
             /\ pc' = "updateMessageCount" ]_vars

\* the enumeration of a later cycle has failed: both gauges hold what
\* the cycles before published
C10_Witness ==
    /\ channelsErr
    /\ memberCountGauge # 0
    /\ DOMAIN messageCountGauge # {}

\* the worker goroutines that were started and have not ended
Started == {i \in Workers : wpc[i] \notin {"idle", "exit"}}

\* the order of the collector's loop: membership, messages (enumeration,
\* dispatch, collection), wait, and again
CycleOrder ==
    { <<"updateMemberCount", "updateMessageCount">>,
      <<"updateMessageCount", "dispatch">>,
      <<"updateMessageCount", "Sleep">>,
      <<"dispatch", "collect">>,
      <<"collect", "Sleep">>,
      <<"Sleep", "updateMemberCount">> }

\* C11: the collector starts in the membership phase of the first cycle, it
\* moves through the phases in the loop's order only, a cycle starts only
\* from the wait after the cycle before, and outside the dispatch and the
\* collection of a cycle no worker and no closer of any cycle is running.
C11_CyclesAreSequential ==
    /\ pc = "updateMemberCount"
    /\ [][ /\ pc' # pc => <<pc, pc'>> \in CycleOrder
           /\ pc' \notin {"dispatch", "collect"} =>
                /\ \A i \in DOMAIN wpc' : wpc'[i] = "exit"
                /\ closer' # "Wait"
                /\ wg' = 0 /\ semaphore' = 0 ]_vars

\* the workers of a later cycle are running: the labels of the gauge are
\* those of a cycle before, nothing being collected during the dispatch
C11_Witness ==
    /\ pc = "dispatch"
    /\ DOMAIN messageCountGauge # {}
    /\ \E i \in Workers : wpc[i] = "await"

\* C12: the step by which updateMessageCount returns from the collecting
\* loop is taken only when every channel of the filtered list was dispatched,
\* every worker has sent its result and ended, and all the results were
\* collected, failed ones included; and the step by which a request of one
\* channel fails changes nothing of any other worker nor of the collector.
C12_ReturnsAfterAllResults ==
    [][ /\ (pc = "collect" /\ pc' = "Sleep") =>
             /\ Cardinality(Workers) = Len(activeChannels)
             /\ counted = {activeChannels[i].ID : i \in Workers}
             /\ \A i \in Workers : wpc[i] = "exit"
             /\ results = <<>>
             /\ successCount + errorCount = Len(activeChannels)
        /\ \A i \in Workers :
             (i \in DOMAIN werr' /\ ~werr[i] /\ werr'[i]) =>
                /\ pc' = pc
                /\ DOMAIN wpc' = Workers
                /\ results' = results /\ closed' = closed /\ wg' = wg
                /\ \A j \in Workers \ {i} :
                     /\ wpc'[j] = wpc[j]
                     /\ totalCount'[j] = totalCount[j]
                     /\ lastMessageID'[j] = lastMessageID[j]
                     /\ werr'[j] = werr[j] ]_vars

\* the collecting loop is about to end after a cycle of two channels, of
\* which one failed and the other was published
C12_Witness ==
    /\ pc = "collect" /\ closed /\ results = <<>>
    /\ Len(activeChannels) = 2
    /\ errorCount = 1 /\ successCount = 1

\* C13: the number of permits in the semaphore is the number of workers
\* between their acquire and their release, and those are the only workers
\* with a page request to issue or in flight; a worker enters that stretch
\* only by acquiring one permit and leaves it only by releasing one, after
\* its result was sent, never enters it again, and no permit is held when
\* updateMessageCount has returned.
C13_PermitDiscipline ==
    [][ /\ semaphore = Cardinality(Holding)
        /\ semaphore' = Cardinality(Holding')
        /\ \A i \in Workers \cap DOMAIN wpc' :
             /\ (i \notin Holding /\ i \in Holding') =>
                   /\ wpc[i] = "acquire"
                   /\ semaphore' = semaphore + 1
             /\ (i \in Holding /\ i \notin Holding') =>
                   /\ wpc[i] = "release" /\ wpc'[i] = "Done"
                   /\ semaphore' = semaphore - 1
             /\ wpc[i] \in {"Done", "exit"} => wpc'[i] \in {"Done", "exit"}
        /\ pc' = "Sleep" => semaphore' = 0 ]_vars

\* with one permit, a worker whose count failed has sent its result and
\* holds the permit still, which another worker waits for
C13_Witness ==
    /\ limit = 1 /\ semaphore = 1
    /\ successCount + errorCount = 0
    /\ Len(results) = 1 /\ results[1].err
    /\ \E i, j \in Workers : wpc[i] = "release" /\ wpc[j] = "acquire"

\* the workers of the other channels whose count was published in full
PublishedOthers ==
    {i \in Others :
        /\ activeChannels[i].Name \in DOMAIN messageCountGauge
        /\ messageCountGauge[activeChannels[i].Name] = messages[activeChannels[i].ID]}

\* C14: with two permits and a channel whose request may never return, the
\* workers of all the other channels end, and their results are collected,
\* each either published with the channel's full count or counted as an
\* error; while the request hangs, its worker holds one permit, the cycle
\* has not ended and the process runs.
C14_HangStallsOnlyItsWorker ==
    /\ (pc = "dispatch") ~>
          /\ \A i \in Others : wpc[i] = "exit"
          /\ \A j \in DOMAIN results :
                \A i \in Others : results[j].channelName # activeChannels[i].Name
          /\ Cardinality(Others) = Cardinality(GuildE2E) - Cardinality(HungChannels)
          /\ Cardinality(PublishedOthers) + errorCount = Cardinality(Others)
    /\ [](\A i \in Workers \ Others :
            wpc[i] = "await" =>
               /\ semaphore >= 1
               /\ pc \in {"dispatch", "collect"}
               /\ ~closed
               /\ alive)

\* the request of the first channel hangs, holding one of the two permits,
\* and both other channels were counted through the other and published
C14_Witness ==
    /\ \E i \in Workers \ Others : wpc[i] = "await"
    /\ semaphore = 1
    /\ Cardinality(PublishedOthers) = 2
    /\ pc = "collect"

\* C15: the channels of the filtered list have labels distinct from each
\* other, and when a cycle has ended with no failed count, every channel of
\* the list has its own full count under its label, whatever the order in
\* which the workers ran and the results were collected.
C15_OwnLabelPerChannel ==
    /\ \A i, j \in DOMAIN activeChannels :
          i # j => activeChannels[i].Name # activeChannels[j].Name
    /\ (pc = "Sleep" /\ ~channelsErr /\ errorCount = 0) =>
          \A i \in DOMAIN activeChannels :
             /\ activeChannels[i].Name \in DOMAIN messageCountGauge
             /\ messageCountGauge[activeChannels[i].Name] =
                   messages[activeChannels[i].ID]

\* the worker's count has ended: countChannelMessages has returned
Counted(i) == wpc[i] \in {"send", "release", "Done", "exit"}

\* C16: when a request returns a page of fewer than 100 entries, an empty
\* one included, the count ends and no further request is issued for the
\* channel; when it returns a page of 100 entries, one more request is
\* issued; a count that has ended issues no request; and, every request
\* returning, a count that was started ends.
C16_EndsAtFirstShortPage ==
    /\ [][ \A i \in Workers \cap DOMAIN wpc' :
             /\ (wpc[i] = "await" /\ Len(pages'[i]) = Len(pages[i]) + 1) =>
                   LET messageCount == pages'[i][Len(pages'[i])] IN
                   /\ messageCount < 100 => wpc'[i] = "send"
                   /\ messageCount = 100 => wpc'[i] = "request"
                   /\ messageCount <= 100
             /\ Counted(i) => wpc'[i] \notin {"request", "await"} ]_vars
    /\ (Workers # {} /\ wpc[1] = "request") ~> (Workers # {} /\ Counted(1))

\* after two full pages the third request has returned an empty page and
\* the count has ended
C16_Witness ==
    \E i \in Workers :
        /\ wpc[i] = "send" /\ ~werr[i]
        /\ pages[i] = <<100, 100, 0>>

\* the workers with a page request in flight
InFlight == {i \in Workers : wpc[i] = "await"}

\* C17: a worker issues a request only after its acquire or after the page
\* of its request before has returned, so that it has one request in flight
\* at most, and no two workers request pages of the same channel; the first
\* request carries no cursor, and the request after n pages, all of 100
\* entries, carries the identifier of the oldest message of the n-th page,
\* which is the 100n-th message from the newest.
C17_RequestsAreCursorChained ==
    [][ /\ \A i, j \in InFlight :
             i # j => activeChannels[i].ID # activeChannels[j].ID
        /\ \A i \in Workers \cap DOMAIN wpc' :
             /\ (wpc'[i] = "request" /\ wpc[i] # "request") =>
                   wpc[i] \in {"acquire", "await"}
             /\ (wpc'[i] = "await" /\ wpc[i] # "await") =>
                   /\ wpc[i] = "request"
                   /\ lastMessageID'[i] = lastMessageID[i]
                   /\ \A k \in DOMAIN pages[i] : pages[i][k] = 100
                   /\ lastMessageID[i] =
                        IF pages[i] = <<>> THEN NoMessageID
                        ELSE messages[activeChannels[i].ID]
                                - 100 * Len(pages[i]) + 1 ]_vars

\* the third request of one channel, with the cursor at the 200th message
\* from the newest, is in flight while the second request of another is
C17_Witness ==
    \E i, j \in InFlight :
        /\ pages[i] = <<100, 100>>
        /\ lastMessageID[i] = messages[activeChannels[i].ID] - 199
        /\ pages[j] = <<100>>

\* C18: every goroutine being scheduled and every request returning, an
\* updateMessageCount that was entered returns, for every channel list and
\* capacity of the semaphore; and a worker that has its result to send
\* finds room in the buffer of results, which is open: no worker waits for
\* the collecting loop with a permit in hand.
C18_DispatchIsDeadlockFree ==
    /\ (pc = "updateMessageCount") ~> (pc = "Sleep")
    /\ [](\A i \in Workers :
            wpc[i] = "send" =>
               /\ Len(results) < Len(activeChannels)
               /\ ~closed
               /\ ENABLED Send(i))

\* the last worker of the longest list is about to send, the results of
\* all the others being in the buffer, none collected yet
C18_Witness ==
    /\ Len(activeChannels) = MaxChannels
    /\ Len(results) = Len(activeChannels) - 1
    /\ successCount + errorCount = 0
    /\ \E i \in Workers : wpc[i] = "send"

\* C19: results is closed by the closer only, which is started once in a
\* cycle, after the dispatch loop, and closes once, when every worker of the
\* list has sent its result and ended; while results is closed no worker is
\* before or at its send; and the collecting loop ends only on the closed
\* channel, with as many results received as channels were dispatched.
C19_ClosedOnceAfterAllSends ==
    [][ /\ (closer' = "Wait" /\ closer # "Wait") =>
             closer = "none" /\ pc = "dispatch" /\ ~closed
        /\ (closed' /\ ~closed) =>
             /\ closer = "Wait" /\ closer' = "exit"
             /\ wg = 0
             /\ Cardinality(Sent) = Len(activeChannels)
             /\ \A i \in Workers : wpc[i] = "exit"
        /\ closed =>
             /\ closer = "exit"
             /\ \A i \in Workers : wpc[i] = "exit"
             /\ (closed' \/ (pc = "Sleep" /\ pc' = "updateMemberCount"))
        /\ (pc = "collect" /\ pc' = "Sleep") =>
             /\ closed
             /\ successCount + errorCount = Len(activeChannels) ]_vars

\* results was closed with both results still in the buffer: the collecting
\* loop receives them from the closed channel
C19_Witness ==
    /\ closed /\ pc = "collect"
    /\ Len(results) = 2
    /\ successCount + errorCount = 0

\* C20: a step of a worker or of the closer changes no gauge; the
\* message-count gauge changes only by a step of the collecting loop that
\* takes a result without error from results and sets that result's label
\* to its count, which is the full count of a channel of that name whose
\* worker has sent; the membership gauge changes only by the collector's
\* step from updateMemberCount, when no worker exists; so at every step
\* each label keeps its value or takes such a full count.
C20_SingleGaugeWriter ==
    [][ /\ (\/ closer' # closer
            \/ \E i \in Workers \cap DOMAIN wpc' : wpc'[i] # wpc[i]) =>
             /\ messageCountGauge' = messageCountGauge
             /\ memberCountGauge' = memberCountGauge
        /\ messageCountGauge' # messageCountGauge =>
             /\ pc = "collect" /\ pc' = "collect"
             /\ results # <<>> /\ results' = Tail(results)
             /\ ~Head(results).err
             /\ messageCountGauge' =
                  [l \in DOMAIN messageCountGauge \cup {Head(results).channelName} |->
                     IF l = Head(results).channelName THEN Head(results).count
                     ELSE messageCountGauge[l]]
             /\ memberCountGauge' = memberCountGauge
        /\ memberCountGauge' # memberCountGauge =>
             /\ pc = "updateMemberCount" /\ pc' = "updateMessageCount"
             /\ wpc = <<>> /\ wpc' = <<>> /\ closer = "none"
             /\ messageCountGauge' = messageCountGauge
        /\ \A label \in DOMAIN messageCountGauge' :
             \/ /\ label \in DOMAIN messageCountGauge
                /\ messageCountGauge'[label] = messageCountGauge[label]
             \/ \E i \in Sent :
                  /\ activeChannels[i].Name = label
                  /\ messageCountGauge'[label] = messages[activeChannels[i].ID] ]_vars

\* the collecting loop has published the count of one channel while the
\* worker of another has a request in flight
C20_Witness ==
    /\ pc = "collect"
    /\ successCount = 1
    /\ \E i \in Workers : wpc[i] = "await"
    /\ \E j \in Sent :
         /\ activeChannels[j].Name \in DOMAIN messageCountGauge
         /\ messageCountGauge[activeChannels[j].Name] = messages[activeChannels[j].ID]
         /\ messages[activeChannels[j].ID] > 0

====
